---- MODULE Spec2Model ----
(***************************************************************************)
(* MainWindow of lab2-qt20-db: menu slots over a named SQLite connection,  *)
(* the table "rectangle" and a QSqlTableModel shown in a QTableView.       *)
(***************************************************************************)
EXTENDS Integers, Sequences, FiniteSets

\* ------------------------------------------------------------------ bounds
\* Number of onInsertInto runs the AUTOINCREMENT counter may absorb.
MaxInserts == 2
\* Rows of one table the user may remove through the model.
MaxRemovals == 1
\* successful onInsertInto runs per table in the specification of large tables
MaxBulkInserts == 26

\* --------------------------------------------------------------- constants
kConnName_ == "rectangles_conn"
kDbFile_ == "rectangle_data.sqlite"
kTable_ == "rectangle"
kSeqTable == "sqlite_sequence"
NoConn == "(default)"
NoName == ""
NoDelegate == "(none)"
NoEditor == [kind |-> "nullptr", column |-> -1, currentIndex |-> -1,
             value |-> [type |-> "Invalid", v |-> 0]]
NoCall == [method |-> "", column |-> -1]
NoAction == ""
nullptr == 0
InvalidRow == -1
SolidLine == 1
DashLine == 2
DotLine == 3
NoPen == 0
DashDotLine == 4
DashDotDotLine == 5
OnRowChange == 1
RowsPerInsert == 10
\* QSQL_PREFETCH of QSqlQueryModel: rows one fetch adds past the bottom row
QSQL_PREFETCH == 255

\* ------------------------------------------------------------------- state
VARIABLES
  driverAvailable,   \* the QSQLITE plugin can be loaded in this process
  registry,          \* names known to QSqlDatabase::contains()
  addDatabaseCalls,  \* calls of QSqlDatabase::addDatabase so far
  connOpen,          \* isOpen() of the registered connection
  connDbName,        \* databaseName() of the registered connection
  m_db,              \* connection the window's handle refers to
  tables,            \* tables of the SQLite file
  rows,              \* rows of table "rectangle", in rowid order
  seq,               \* AUTOINCREMENT counter of table "rectangle"
  m_model,           \* MainWindow::m_model (nullptr or object id)
  viewModel,         \* ui->tableView->model()
  modelTable,        \* QSqlTableModel::tableName()
  editStrategy,      \* QSqlTableModel::editStrategy()
  modelRows,         \* rows of the model: fetched rows and cached changes
  headers,           \* horizontal header texts set on the model
  hiddenColumns,     \* columns hidden in the view
  delegateColumns,   \* columns of the view having a column delegate
  currentRow,        \* row of ui->tableView->currentIndex()
  modelsCreated,     \* QSqlTableModel objects constructed so far
  okInserts,         \* successful onInsertInto runs since the table was created,
                     \* -1 once its rows changed in another way
  faulted,           \* the environment has made a call (open, exec) fail
  log,               \* literal text of the qDebug lines written by the last slot
  sqlTrace,          \* SQL statements handed to the driver by the last slot
  delegate,          \* a MyDelegate object on its own: the column constants
                     \* of the header it was built with (NoDelegate: none)
  cells,             \* data of the item model the delegate works on:
                     \* column -> role -> QVariant, one row
  editor,            \* the editor widget createEditor returned
  call,              \* the last delegate method called and its index
  menuBar,           \* menus of the window: title and entries in order
  triggered          \* text of the menu action triggered last

connVars == <<registry, addDatabaseCalls, connOpen, connDbName, m_db>>
fileVars == <<tables, rows, seq, okInserts>>
modelVars == <<m_model, viewModel, modelTable, editStrategy, modelRows,
               headers, hiddenColumns, delegateColumns, currentRow,
               modelsCreated>>
delegateVars == <<delegate, cells, editor, call>>
\* what no slot of the window changes
fixedVars == <<driverAvailable, delegateVars, menuBar>>
windowVars == <<driverAvailable, connVars, fileVars, modelVars, faulted, log,
                sqlTrace>>
menuVars == <<menuBar, triggered>>
vars == <<windowVars, delegateVars, menuVars>>

\* ------------------------------------------------------- QColor and MyRect
HexDigits == <<"0", "1", "2", "3", "4", "5", "6", "7",
               "8", "9", "a", "b", "c", "d", "e", "f">>

HexVal(ch) == (CHOOSE i \in 1..16 : HexDigits[i] = ch) - 1

HexByte(s, i) == 16 * HexVal(s[i]) + HexVal(s[i + 1])

\* QColor("#rrggbb"): the three channels of the name, given by its characters
QColor(s) == [r |-> HexByte(s, 2), g |-> HexByte(s, 4), b |-> HexByte(s, 6)]

HexPair(n) == HexDigits[(n \div 16) + 1] \o HexDigits[(n % 16) + 1]

\* QColor::name(): "#rrggbb" in lower-case hex
QColorName(c) == "#" \o HexPair(c.r) \o HexPair(c.g) \o HexPair(c.b)

MyRect(c, s, pw, l, t, w, h) ==
  [penColor |-> c, penStyle |-> s, penWidth |-> pw,
   left |-> l, top |-> t, width |-> w, height |-> h]

\* ------------------------------------------------------------- connection
\* QSqlDatabase::isValid() of m_db
DbIsValid == m_db # NoConn /\ m_db \in registry /\ driverAvailable

\* QSqlDatabase::isOpen() of m_db
DbIsOpen == m_db # NoConn /\ m_db \in registry /\ connOpen

ensureDbOpen_Log(caller) ==
  IF ~DbIsValid
    THEN <<caller \o ": DB is not valid. Call BD -> Create connection.">>
    ELSE IF ~DbIsOpen
      THEN <<caller \o ": DB is not open. Call BD -> Create connection.">>
      ELSE << >>

\* mutant: the guard forgets isOpen()
ensureDbOpen_ValidOnly == DbIsValid

ensureDbOpen_ == DbIsValid /\ DbIsOpen

\* mutant: the table is taken to exist whenever the connection is open
DbTables_Always == IF DbIsOpen THEN tables \cup {kTable_} ELSE {}

\* m_db.tables(): empty on a closed connection
DbTables == IF DbIsOpen THEN tables ELSE {}

\* outcomes the environment may give a call that can fail: it makes at most
\* one call of a run fail
Outcomes == IF faulted THEN {TRUE} ELSE BOOLEAN

Fault(attempted, ok) == attempted /\ ~ok

\* q.exec(): the statement runs on an open connection unless the environment
\* makes it fail
ExecOk(ok) == ok /\ DbIsOpen

\* mutant: the registry is never consulted, addDatabase() runs every time
contains_Never(name) == FALSE

\* QSqlDatabase::contains(name)
contains(name) == name \in registry

\* mutant: setDatabaseName() is left out
setDatabaseName_Keep(old) == old

\* m_db.setDatabaseName(kDbFile_) on a connection named old
setDatabaseName(old) == kDbFile_

\* the count of successful inserts once the table is tbls' "rectangle"
InsertsAfter(tbls, dbr) ==
  IF kTable_ \notin tbls THEN 0 ELSE IF dbr # rows THEN -1 ELSE okInserts

\* ui->setupUi(this): the form puts no menu on the menu bar
setupUi == << >>

\* the entry addSeparator() adds
Separator == "|"

\* setupMenus_ on the menu bar bar: the menus with their entries in order
setupMenus_(bar) ==
  bar \o << [title |-> "BD",
              entries |-> <<"Create connection", "Close connection",
                            Separator, "Create table", "Insert into",
                            "Print table", "Drop table">>],
            [title |-> "Model",
              entries |-> <<"Init table model", "Select table",
                            "Insert row", "Remove row">>],
            [title |-> "Query", entries |-> <<"Do query">>] >>

\* the constructor: setupUi, then setupMenus_; nothing is triggered yet
MenusBuilt ==
  /\ menuBar = setupMenus_(setupUi)
  /\ triggered = NoAction

\* no MyDelegate is exercised on its own
NoDelegateWork ==
  /\ delegate = NoDelegate
  /\ cells = << >>
  /\ editor = NoEditor
  /\ call = NoCall

\* mutant: the constructor already registers the connection
Init_Connects ==
  /\ driverAvailable \in BOOLEAN
  /\ registry = {kConnName_}
  /\ addDatabaseCalls = 1
  /\ connOpen = FALSE
  /\ connDbName = NoName
  /\ m_db = NoConn
  /\ tables = {}
  /\ rows = << >>
  /\ seq = 0
  /\ m_model = nullptr
  /\ viewModel = nullptr
  /\ modelTable = NoName
  /\ editStrategy = OnRowChange
  /\ modelRows = << >>
  /\ headers = << >>
  /\ hiddenColumns = {}
  /\ delegateColumns = {}
  /\ currentRow = InvalidRow
  /\ modelsCreated = 0
  /\ okInserts = 0
  /\ faulted = FALSE
  /\ log = << >>
  /\ sqlTrace = << >>
  /\ NoDelegateWork
  /\ MenusBuilt

Init ==
  /\ driverAvailable \in BOOLEAN
  /\ registry = {}
  /\ addDatabaseCalls = 0
  /\ connOpen = FALSE
  /\ connDbName = NoName
  /\ m_db = NoConn
  /\ tables = {}
  /\ rows = << >>
  /\ seq = 0
  /\ m_model = nullptr
  /\ viewModel = nullptr
  /\ modelTable = NoName
  /\ editStrategy = OnRowChange
  /\ modelRows = << >>
  /\ headers = << >>
  /\ hiddenColumns = {}
  /\ delegateColumns = {}
  /\ currentRow = InvalidRow
  /\ modelsCreated = 0
  /\ okInserts = 0
  /\ faulted = FALSE
  /\ log = << >>
  /\ sqlTrace = << >>
  /\ NoDelegateWork
  /\ MenusBuilt

\* ------------------------------------------------------------------ slots
onCreateConnection ==
  \E openOk \in Outcomes :
    LET reuse == contains(kConnName_)
        first == IF reuse
                   THEN <<"onCreateConnection: reuse connection">>
                   ELSE <<"onCreateConnection: addDatabase QSQLITE conn=">>
        wasOpen == IF reuse THEN connOpen ELSE FALSE
        oldName == IF reuse THEN connDbName ELSE NoName
    IN /\ m_db' = kConnName_
       /\ registry' = registry \cup {kConnName_}
       /\ addDatabaseCalls' = IF reuse THEN addDatabaseCalls
                                       ELSE addDatabaseCalls + 1
       /\ IF ~driverAvailable
            THEN /\ connOpen' = wasOpen
                 /\ connDbName' = oldName
                 /\ log' = first \o <<"onCreateConnection: invalid connection",
                                      "lastError:">>
            ELSE /\ connDbName' = setDatabaseName(oldName)
                 /\ connOpen' = openOk
                 /\ log' = IF openOk
                             THEN first \o <<"onCreateConnection: OK. db=",
                                             "tables:">>
                             ELSE first \o <<"onCreateConnection: open() failed",
                                             "lastError:">>
       /\ faulted' = (faulted \/ Fault(driverAvailable, openOk))
       /\ sqlTrace' = << >>
       /\ UNCHANGED <<fixedVars, fileVars, modelVars>>

\* mutant: closing also removes the connection from the registry
onCloseConnection_Remove ==
  /\ IF ~DbIsValid
       THEN /\ log' = <<"onCloseConnection: DB is not valid">>
            /\ UNCHANGED <<connOpen, registry>>
       ELSE IF DbIsOpen
         THEN /\ connOpen' = FALSE
              /\ registry' = registry \ {kConnName_}
              /\ log' = <<"onCloseConnection: closed">>
         ELSE /\ log' = <<"onCloseConnection: already closed">>
              /\ UNCHANGED <<connOpen, registry>>
  /\ sqlTrace' = << >>
  /\ UNCHANGED <<fixedVars, addDatabaseCalls, connDbName, m_db,
                 fileVars, modelVars, faulted>>

onCloseConnection ==
  /\ IF ~DbIsValid
       THEN /\ log' = <<"onCloseConnection: DB is not valid">>
            /\ UNCHANGED connOpen
       ELSE IF DbIsOpen
         THEN /\ connOpen' = FALSE
              /\ log' = <<"onCloseConnection: closed">>
         ELSE /\ log' = <<"onCloseConnection: already closed">>
              /\ UNCHANGED connOpen
  /\ sqlTrace' = << >>
  /\ UNCHANGED <<fixedVars, registry, addDatabaseCalls, connDbName, m_db,
                 fileVars, modelVars, faulted>>

\* ------------------------------------------------------------- SQL file
Columns == <<"pencolor", "penstyle", "penwidth", "left", "top", "width",
             "height">>

\* the row INSERT stores for a VALUES list given in the order of Columns
RowOf(id, v) ==
  [id |-> id, pencolor |-> v[1], penstyle |-> v[2], penwidth |-> v[3],
   left |-> v[4], top |-> v[5], width |-> v[6], height |-> v[7]]

SqlDrop == "DROP TABLE rectangle;"
SqlCreate == "CREATE TABLE rectangle (...);"
SqlSelect == "SELECT * FROM rectangle;"
SqlInsertLiteral == "INSERT ... VALUES ('#ff0000', 1, 3, 10, 20, 60, 60);"
SqlInsertNamed == "INSERT ... VALUES (:pencolor, :penstyle, :penwidth, :left, :top, :width, :height)"
SqlInsertPositional == "INSERT ... VALUES (?,?,?,?,?,?,?)"

\* 1) the literal INSERT
LiteralValues == <<"#ff0000", 1, 3, 10, 20, 60, 60>>

rects ==
  << MyRect(QColor(<<"#", "0", "0", "f", "f", "0", "0">>), SolidLine, 2, 0, 0, 200, 100),
     MyRect(QColor(<<"#", "0", "0", "0", "0", "f", "f">>), DashLine, 1, 10, 20, 60, 60),
     MyRect(QColor(<<"#", "a", "a", "a", "a", "a", "a">>), DotLine, 4, 50, 70, 30, 90) >>

\* 2) prepare + bindValue(":name", ...): placeholder name -> value, read off
\*    in the order of the placeholders of the VALUES list
NamedPlaceholders == <<":pencolor", ":penstyle", ":penwidth", ":left", ":top",
                       ":width", ":height">>

NamedBindings(r) ==
  [ph \in {NamedPlaceholders[i] : i \in 1..7} |->
     CASE ph = ":pencolor" -> QColorName(r.penColor)
       [] ph = ":penstyle" -> r.penStyle
       [] ph = ":penwidth" -> r.penWidth
       [] ph = ":left" -> r.left
       [] ph = ":top" -> r.top
       [] ph = ":width" -> r.width
       [] ph = ":height" -> r.height]

NamedValues(r) == [i \in 1..7 |-> NamedBindings(r)[NamedPlaceholders[i]]]

\* 3) prepare + addBindValue: each call appends the next positional value
AddBindValues(r) ==
  Append(Append(Append(Append(Append(Append(Append(<< >>,
    QColorName(r.penColor)), r.penStyle), r.penWidth), r.left), r.top),
    r.width), r.height)

\* mutant: positions 3 and 4 (left, top) are bound the wrong way round
PositionalBindings_Swapped(r) ==
  [pos \in 0..6 |->
     CASE pos = 0 -> QColorName(r.penColor)
       [] pos = 1 -> r.penStyle
       [] pos = 2 -> r.penWidth
       [] pos = 3 -> r.top
       [] pos = 4 -> r.left
       [] pos = 5 -> r.width
       [] pos = 6 -> r.height]

\* 4) prepare + bindValue(pos, ...): position (from 0) -> value
PositionalBindings(r) ==
  [pos \in 0..6 |->
     CASE pos = 0 -> QColorName(r.penColor)
       [] pos = 1 -> r.penStyle
       [] pos = 2 -> r.penWidth
       [] pos = 3 -> r.left
       [] pos = 4 -> r.top
       [] pos = 5 -> r.width
       [] pos = 6 -> r.height]

PositionalValues(r) == [i \in 1..7 |-> PositionalBindings(r)[i - 1]]

\* mutant: the addBindValue loop stops one rectangle short
InsertStatements_Short ==
  <<[sql |-> SqlInsertLiteral, values |-> LiteralValues,
     fail |-> "onInsertInto: simple INSERT failed:"]>>
  \o [i \in 1..3 |-> [sql |-> SqlInsertNamed, values |-> NamedValues(rects[i]),
                      fail |-> "onInsertInto: named bindValue failed:"]]
  \o [i \in 1..2 |-> [sql |-> SqlInsertPositional,
                      values |-> AddBindValues(rects[i]),
                      fail |-> "onInsertInto: addBindValue failed:"]]
  \o [i \in 1..3 |-> [sql |-> SqlInsertPositional,
                      values |-> PositionalValues(rects[i]),
                      fail |-> "onInsertInto: positional bindValue failed:"]]

\* the ten statements of onInsertInto in execution order
InsertStatements ==
  <<[sql |-> SqlInsertLiteral, values |-> LiteralValues,
     fail |-> "onInsertInto: simple INSERT failed:"]>>
  \o [i \in 1..3 |-> [sql |-> SqlInsertNamed, values |-> NamedValues(rects[i]),
                      fail |-> "onInsertInto: named bindValue failed:"]]
  \o [i \in 1..3 |-> [sql |-> SqlInsertPositional,
                      values |-> AddBindValues(rects[i]),
                      fail |-> "onInsertInto: addBindValue failed:"]]
  \o [i \in 1..3 |-> [sql |-> SqlInsertPositional,
                      values |-> PositionalValues(rects[i]),
                      fail |-> "onInsertInto: positional bindValue failed:"]]

\* qDebug lines of the techniques completed once k statements have succeeded
InsertOkLog(k) ==
  (IF k >= 1 THEN <<"onInsertInto: simple INSERT OK">> ELSE << >>)
  \o (IF k >= 4 THEN <<"onInsertInto: named bindValue OK">> ELSE << >>)
  \o (IF k >= 7 THEN <<"onInsertInto: addBindValue OK">> ELSE << >>)
  \o (IF k >= 10 THEN <<"onInsertInto: positional bindValue OK">> ELSE << >>)

\* statements the environment may make fail, by the number of statements
\* that succeeded before: the first one, one in the middle and the last one
FailAfter == {0, 4, 9}

\* number of statements of onInsertInto that succeed
InsertOutcomes ==
  IF faulted THEN {Len(InsertStatements)}
             ELSE {k \in FailAfter : k < Len(InsertStatements)}
                  \cup {Len(InsertStatements)}

\* mutant: the statement empties the table instead of dropping it
DropResult_KeepsTable(ok) ==
  IF ~ensureDbOpen_
    THEN [tables |-> tables, rows |-> rows, seq |-> seq, fault |-> FALSE,
          log |-> ensureDbOpen_Log("onDropTable"), sql |-> << >>]
    ELSE IF kTable_ \notin DbTables
      THEN [tables |-> tables, rows |-> rows, seq |-> seq, fault |-> FALSE,
            log |-> <<"onDropTable: table does not exist">>, sql |-> << >>]
      ELSE IF ~ExecOk(ok)
        THEN [tables |-> tables, rows |-> rows, seq |-> seq, fault |-> ~ok,
              log |-> <<"onDropTable: DROP TABLE failed:">>,
              sql |-> <<SqlDrop>>]
        ELSE [tables |-> tables, rows |-> << >>, seq |-> 0,
              fault |-> FALSE,
              log |-> <<"onDropTable: OK", "tables:">>, sql |-> <<SqlDrop>>]

\* effect of onDropTable on the file, for the outcome ok of exec(DROP)
DropResult(ok) ==
  IF ~ensureDbOpen_
    THEN [tables |-> tables, rows |-> rows, seq |-> seq, fault |-> FALSE,
          log |-> ensureDbOpen_Log("onDropTable"), sql |-> << >>]
    ELSE IF kTable_ \notin DbTables
      THEN [tables |-> tables, rows |-> rows, seq |-> seq, fault |-> FALSE,
            log |-> <<"onDropTable: table does not exist">>, sql |-> << >>]
      ELSE IF ~ExecOk(ok)
        THEN [tables |-> tables, rows |-> rows, seq |-> seq, fault |-> ~ok,
              log |-> <<"onDropTable: DROP TABLE failed:">>,
              sql |-> <<SqlDrop>>]
        ELSE [tables |-> tables \ {kTable_}, rows |-> << >>, seq |-> 0,
              fault |-> FALSE,
              log |-> <<"onDropTable: OK", "tables:">>, sql |-> <<SqlDrop>>]

onDropTable ==
  \E ok \in Outcomes :
    LET d == DropResult(ok)
    IN /\ tables' = d.tables
       /\ rows' = d.rows
       /\ seq' = d.seq
       /\ log' = d.log
       /\ sqlTrace' = d.sql
       /\ okInserts' = InsertsAfter(d.tables, rows)
       /\ faulted' = (faulted \/ d.fault)
       /\ UNCHANGED <<fixedVars, connVars, modelVars>>

\* mutant: CREATE TABLE IF NOT EXISTS, which an existing table does not fail
CreateSucceeds_IfNotExists(ok, tbls) == ExecOk(ok)

\* exec(CREATE TABLE rectangle ...) fails on an existing table
CreateSucceeds(ok, tbls) == ExecOk(ok) /\ kTable_ \notin tbls

onCreateTable ==
  \E dropOk \in Outcomes, createOk \in Outcomes :
    IF ~ensureDbOpen_
      THEN /\ log' = ensureDbOpen_Log("onCreateTable")
           /\ sqlTrace' = << >>
           /\ UNCHANGED <<fixedVars, connVars, fileVars, modelVars,
                          faulted>>
      ELSE
        LET existed == kTable_ \in DbTables
            d == IF existed
                   THEN DropResult(dropOk)
                   ELSE [tables |-> tables, rows |-> rows, seq |-> seq,
                         fault |-> FALSE, log |-> << >>, sql |-> << >>]
            pre == IF existed
                     THEN <<"onCreateTable: table exists, dropping first...">>
                          \o d.log
                     ELSE << >>
            created == CreateSucceeds(createOk, d.tables)
        IN /\ faulted' = (faulted \/ d.fault
                                   \/ Fault(kTable_ \notin d.tables, createOk))
           /\ tables' = IF created THEN d.tables \cup {kTable_, kSeqTable}
                                   ELSE d.tables
           /\ rows' = d.rows
           /\ seq' = d.seq
           /\ okInserts' = InsertsAfter(d.tables, rows)
           /\ log' = IF created
                       THEN pre \o <<"onCreateTable: OK", "tables:">>
                       ELSE pre \o <<"onCreateTable: CREATE TABLE failed:">>
           /\ sqlTrace' = d.sql \o <<SqlCreate>>
           /\ UNCHANGED <<fixedVars, connVars, modelVars>>

\* onInsertInto on a table that takes at most maxInserts runs of it
\* mutant: a failing statement undoes the rows stored before it
StoredRows_RolledBack(k) ==
  IF k < Len(InsertStatements)
    THEN << >>
    ELSE [i \in 1..k |-> RowOf(seq + i, InsertStatements[i].values)]

\* the rows the first k statements store, each committed as it is executed
StoredRows(k) == [i \in 1..k |-> RowOf(seq + i, InsertStatements[i].values)]

InsertInto(maxInserts) ==
  \E k \in InsertOutcomes :
    IF ~ensureDbOpen_
      THEN /\ log' = ensureDbOpen_Log("onInsertInto")
           /\ sqlTrace' = << >>
           /\ UNCHANGED <<fixedVars, connVars, fileVars, modelVars,
                          faulted>>
      ELSE IF kTable_ \notin DbTables
        THEN /\ log' = <<"onInsertInto: table does not exist. Call BD -> Create table first.">>
             /\ sqlTrace' = << >>
             /\ UNCHANGED <<fixedVars, connVars, fileVars, modelVars,
                            faulted>>
        ELSE
          \* the first k statements succeed, statement k+1 (if any) fails
          LET n == Len(InsertStatements)
          IN /\ seq + n <= RowsPerInsert * maxInserts
             /\ rows' = rows \o StoredRows(k)
             /\ seq' = seq + k
             /\ okInserts' = IF k = 0 THEN okInserts
                              ELSE IF k = n /\ okInserts >= 0
                                THEN okInserts + 1
                                ELSE -1
             /\ faulted' = (faulted \/ Fault(TRUE, k = n))
             /\ sqlTrace' = [i \in 1..(IF k < n THEN k + 1 ELSE k) |->
                               InsertStatements[i].sql]
             /\ log' = IF k = n
                         THEN InsertOkLog(k) \o <<"onInsertInto: DONE">>
                         ELSE InsertOkLog(k) \o <<InsertStatements[k + 1].fail>>
             /\ UNCHANGED <<fixedVars, connVars, tables, modelVars>>

onInsertInto == InsertInto(MaxInserts)

\* the literal text of the qDebug line onPrintTable writes per fetched row
PrintedRow == "id= color= style= pW= rect=( , , , )"

onPrintTable ==
  \E ok \in Outcomes :
    /\ IF ~ensureDbOpen_
         THEN /\ log' = ensureDbOpen_Log("onPrintTable")
              /\ sqlTrace' = << >>
              /\ UNCHANGED faulted
         ELSE IF kTable_ \notin DbTables
           THEN /\ log' = <<"onPrintTable: table does not exist. Call BD -> Create table first.">>
                /\ sqlTrace' = << >>
                /\ UNCHANGED faulted
           ELSE /\ sqlTrace' = <<SqlSelect>>
                /\ faulted' = (faulted \/ Fault(TRUE, ok))
                /\ log' = IF ExecOk(ok)
                            THEN <<"onPrintTable: rows:">>
                                 \o [i \in 1..Len(rows) |-> PrintedRow]
                            ELSE <<"onPrintTable: SELECT failed:">>
    /\ UNCHANGED <<fixedVars, connVars, fileVars, modelVars>>

\* ------------------------------------------------------ model and view
SqlModelSelect == "SELECT id, pencolor, penstyle, penwidth, left, top, width, height FROM rectangle"
SqlModelSelectRow == "SELECT ... FROM rectangle WHERE id = ?"
SqlModelDelete == "DELETE FROM rectangle WHERE id = ?"

HeaderTexts == <<"ID", "Color", "Style", "PenWidth", "Left", "Top", "Width",
                 "Height">>

\* a model row: the primary key it was fetched with (0: none) and the cached
\* change (QSqlTableModelPrivate::ModifiedRow: op and submitted)
FetchedRow(r) == [id |-> r.id, op |-> "None", submitted |-> FALSE]
InsertedRow == [id |-> 0, op |-> "Insert", submitted |-> FALSE]
DeletedRow == [id |-> 0, op |-> "Delete", submitted |-> TRUE]

Min(a, b) == IF a < b THEN a ELSE b

\* rows of the model after select(): SQLite reports no query size, so the
\* query model seeks to row QSQL_PREFETCH and holds the rows 0..QSQL_PREFETCH;
\* nothing in onInitTableModel calls fetchMore() afterwards
SelectedRows(dbr) ==
  [i \in 1..Min(Len(dbr), QSQL_PREFETCH + 1) |-> FetchedRow(dbr[i])]

\* QSqlTableModel::isDirty(): some cached change is not submitted
IsDirty(mr) == \E i \in 1..Len(mr) : mr[i].op # "None" /\ ~mr[i].submitted

WithoutId(dbr, id) == SelectSeq(dbr, LAMBDA r : r.id # id)

WithoutRow(mr, i) == SubSeq(mr, 1, i - 1) \o SubSeq(mr, i + 1, Len(mr))

\* the model's statements run on the connection of m_db against the table
ModelCanExec == DbIsOpen /\ kTable_ \in tables

\* QSqlTableModel::submitAll() under OnRowChange from cached row i on: the
\* rows are taken in order and the first failure stops the loop. An inserted
\* row has no generated field ("No Fields to update"), a row whose primary
\* values are cleared cannot be deleted; st.ok is the outcome the
\* environment gives the next DELETE.
RECURSIVE SubmitFrom(_, _)
SubmitFrom(i, st) ==
  IF i > Len(st.mr)
    THEN st
    ELSE
      LET m == st.mr[i]
      IN IF m.op = "None" \/ m.submitted
           THEN SubmitFrom(i + 1, st)
           ELSE IF m.op = "Insert" \/ m.id = 0
             THEN [st EXCEPT !.success = FALSE]
             ELSE IF ~ModelCanExec
               THEN [st EXCEPT !.success = FALSE,
                               !.sql = Append(@, SqlModelDelete)]
               ELSE IF ~ExecOk(st.ok)
                 THEN [st EXCEPT !.success = FALSE, !.fault = TRUE,
                                 !.sql = Append(@, SqlModelDelete)]
                 ELSE SubmitFrom(i + 1,
                        [st EXCEPT !.dbr = WithoutId(@, m.id),
                                   !.mr[i] = DeletedRow,
                                   !.sql = @ \o <<SqlModelDelete,
                                                  SqlModelSelectRow>>])

\* rows removed from the table since it was created
Removed == seq - Len(rows)

\* mutant: submit() writes every pending inserted row to the table at once
Submit_WritesInserted(mr, ok) ==
  LET ins == SelectSeq(mr, LAMBDA m : m.op = "Insert" /\ ~m.submitted)
  IN [mr |-> [i \in 1..Len(mr) |->
                IF mr[i].op = "Insert"
                  THEN [mr[i] EXCEPT !.submitted = TRUE]
                  ELSE mr[i]],
      dbr |-> rows \o [i \in 1..Len(ins) |->
                         RowOf(seq + i, InsertStatements[1].values)],
      sql |-> << >>, ok |-> ok, fault |-> FALSE, success |-> TRUE]

\* QSqlTableModel::submit() of the model holding the rows mr
Submit(mr, ok) ==
  SubmitFrom(1, [mr |-> mr, dbr |-> rows, sql |-> << >>, ok |-> ok,
                 fault |-> FALSE, success |-> TRUE])

\* mutant: a model is constructed on every call
NoModelYet_Always == TRUE

\* if (!m_model)
NoModelYet == m_model = nullptr

onInitTableModel ==
  \E ok \in Outcomes :
    IF ~ensureDbOpen_
      THEN /\ log' = ensureDbOpen_Log("onInitTableModel")
           /\ sqlTrace' = << >>
           /\ UNCHANGED <<fixedVars, connVars, fileVars, modelVars,
                          faulted>>
      ELSE IF kTable_ \notin DbTables
        THEN /\ log' = <<"onInitTableModel: table does not exist. Call BD -> Create table first.">>
             /\ sqlTrace' = << >>
             /\ UNCHANGED <<fixedVars, connVars, fileVars, modelVars,
                            faulted>>
        ELSE
          /\ IF NoModelYet
               THEN /\ m_model' = modelsCreated + 1
                    /\ modelsCreated' = modelsCreated + 1
                    /\ viewModel' = modelsCreated + 1
               ELSE UNCHANGED <<m_model, modelsCreated, viewModel>>
          /\ modelTable' = kTable_
          /\ editStrategy' = OnRowChange
          /\ sqlTrace' = <<SqlModelSelect>>
          /\ faulted' = (faulted \/ Fault(TRUE, ok))
          \* setTable() and select() reset the model: no current index
          /\ currentRow' = InvalidRow
          /\ IF ~ExecOk(ok)
               THEN /\ modelRows' = << >>
                    /\ headers' = << >>
                    /\ log' = <<"onInitTableModel: select() failed:">>
                    /\ UNCHANGED <<hiddenColumns, delegateColumns>>
               ELSE /\ modelRows' = SelectedRows(rows)
                    /\ headers' = HeaderTexts
                    /\ hiddenColumns' = hiddenColumns \cup {0}
                    /\ delegateColumns' = delegateColumns \cup {1, 2}
                    /\ log' = <<"onInitTableModel: loaded rows=">>
          /\ UNCHANGED <<fixedVars, connVars, fileVars>>

onSelectTable ==
  /\ log' = <<"Model: Select table">>
  /\ sqlTrace' = << >>
  /\ UNCHANGED <<fixedVars, connVars, fileVars, modelVars, faulted>>

onInsertRow ==
  IF ~ensureDbOpen_
    THEN /\ log' = ensureDbOpen_Log("onInsertRow")
         /\ sqlTrace' = << >>
         /\ UNCHANGED <<fixedVars, connVars, fileVars, modelVars, faulted>>
    ELSE IF m_model = nullptr
      THEN /\ log' = <<"onInsertRow: model not initialized. Use Model -> Table model first.">>
           /\ sqlTrace' = << >>
           /\ UNCHANGED <<fixedVars, connVars, fileVars, modelVars,
                          faulted>>
      ELSE IF IsDirty(modelRows)
        \* insertRows() refuses while a cached change is pending
        THEN /\ log' = <<"onInsertRow: insertRows failed:">>
             /\ sqlTrace' = << >>
             /\ UNCHANGED <<fixedVars, connVars, fileVars, modelVars,
                            faulted>>
        ELSE
          \* selectRow(row) moves the current row: the view submits the
          \* model, and the new row, having no values, stays pending
          LET row == Len(modelRows)
              s == Submit(Append(modelRows, InsertedRow), TRUE)
          IN /\ modelRows' = s.mr
             /\ rows' = s.dbr
             /\ okInserts' = InsertsAfter(tables, s.dbr)
             /\ sqlTrace' = s.sql
             /\ currentRow' = row
             /\ log' = <<"onInsertRow: inserted row=">>
             /\ UNCHANGED <<fixedVars, connVars, tables, seq, m_model,
                            viewModel, modelTable, editStrategy, headers,
                            hiddenColumns, delegateColumns, modelsCreated,
                            faulted>>

\* QAbstractItemView::rowsAboutToBeRemoved for the current row, the last one
CurrentAfterRemoval(row) == IF row > 0 THEN row - 1 ELSE InvalidRow

onRemoveRow ==
  \E ok \in Outcomes :
    IF ~ensureDbOpen_
      THEN /\ log' = ensureDbOpen_Log("onRemoveRow")
           /\ sqlTrace' = << >>
           /\ UNCHANGED <<fixedVars, connVars, fileVars, modelVars,
                          faulted>>
      ELSE IF m_model = nullptr
        THEN /\ log' = <<"onRemoveRow: model not initialized. Use Model -> Table model first.">>
             /\ sqlTrace' = << >>
             /\ UNCHANGED <<fixedVars, connVars, fileVars, modelVars,
                            faulted>>
        ELSE IF currentRow = InvalidRow
          THEN /\ log' = <<"onRemoveRow: no current row selected">>
               /\ sqlTrace' = << >>
               /\ UNCHANGED <<fixedVars, connVars, fileVars, modelVars,
                              faulted>>
          ELSE
            LET i == currentRow + 1
                m == modelRows[i]
                refused == m.submitted /\ IsDirty(modelRows)
                \* an inserted row is reverted: it leaves the model, the
                \* current row moves (the view submits), then submit()
                reverted == WithoutRow(modelRows, i)
                s == IF m.op = "Insert"
                       THEN Submit(reverted, ok)
                       ELSE Submit([modelRows EXCEPT ![i] =
                                      [id |-> m.id, op |-> "Delete",
                                       submitted |-> FALSE]], ok)
            IN IF refused
                 THEN /\ log' = <<"onRemoveRow: removeRows failed:">>
                      /\ sqlTrace' = << >>
                      /\ UNCHANGED <<fixedVars, connVars, fileVars,
                                     modelVars, faulted>>
                 ELSE /\ Removed < MaxRemovals
                      /\ modelRows' = s.mr
                      /\ rows' = s.dbr
                      /\ okInserts' = InsertsAfter(tables, s.dbr)
                      /\ sqlTrace' = s.sql
                      /\ faulted' = (faulted \/ s.fault)
                      /\ currentRow' = IF m.op = "Insert"
                                         THEN CurrentAfterRemoval(currentRow)
                                         ELSE currentRow
                      /\ log' = IF s.success
                                  THEN <<"onRemoveRow: removed row=">>
                                  ELSE <<"onRemoveRow: removeRows failed:">>
                      /\ UNCHANGED <<fixedVars, connVars, tables, seq,
                                     m_model, viewModel, modelTable,
                                     editStrategy, headers, hiddenColumns,
                                     delegateColumns, modelsCreated>>

onDoQuery ==
  /\ log' = <<"Query: Do query">>
  /\ sqlTrace' = << >>
  /\ UNCHANGED <<fixedVars, connVars, fileVars, modelVars, faulted>>

\* mutant: Drop table is connected to the slot of Create table
connect_DropToCreate(text) ==
  CASE text = "Create connection" -> "onCreateConnection"
    [] text = "Close connection" -> "onCloseConnection"
    [] text = "Create table" -> "onCreateTable"
    [] text = "Insert into" -> "onInsertInto"
    [] text = "Print table" -> "onPrintTable"
    [] text = "Drop table" -> "onCreateTable"
    [] text = "Init table model" -> "onInitTableModel"
    [] text = "Select table" -> "onSelectTable"
    [] text = "Insert row" -> "onInsertRow"
    [] text = "Remove row" -> "onRemoveRow"
    [] text = "Do query" -> "onDoQuery"

\* connect(action, &QAction::triggered, this, slot): the slot of the action
\* with the given text
connect(text) ==
  CASE text = "Create connection" -> "onCreateConnection"
    [] text = "Close connection" -> "onCloseConnection"
    [] text = "Create table" -> "onCreateTable"
    [] text = "Insert into" -> "onInsertInto"
    [] text = "Print table" -> "onPrintTable"
    [] text = "Drop table" -> "onDropTable"
    [] text = "Init table model" -> "onInitTableModel"
    [] text = "Select table" -> "onSelectTable"
    [] text = "Insert row" -> "onInsertRow"
    [] text = "Remove row" -> "onRemoveRow"
    [] text = "Do query" -> "onDoQuery"

\* the call of a slot by its name
Invoke(slot) ==
  CASE slot = "onCreateConnection" -> onCreateConnection
    [] slot = "onCloseConnection" -> onCloseConnection
    [] slot = "onCreateTable" -> onCreateTable
    [] slot = "onInsertInto" -> onInsertInto
    [] slot = "onPrintTable" -> onPrintTable
    [] slot = "onDropTable" -> onDropTable
    [] slot = "onInitTableModel" -> onInitTableModel
    [] slot = "onSelectTable" -> onSelectTable
    [] slot = "onInsertRow" -> onInsertRow
    [] slot = "onRemoveRow" -> onRemoveRow
    [] slot = "onDoQuery" -> onDoQuery

\* the entry the i-th addAction or addSeparator call put on menu m
EntryAt(m, i) == menuBar[m].entries[i]

\* the user triggers the menu action with the given text
Trigger(text) == Invoke(connect(text))

\* the menu actions, each triggered by the user
aInitModel ==
  /\ EntryAt(2, 1) = "Init table model"
  /\ triggered' = "Init table model"
  /\ Trigger("Init table model")

aSelectTable ==
  /\ EntryAt(2, 2) = "Select table"
  /\ triggered' = "Select table"
  /\ Trigger("Select table")

aInsertRow ==
  /\ EntryAt(2, 3) = "Insert row"
  /\ triggered' = "Insert row"
  /\ Trigger("Insert row")

aRemoveRow ==
  /\ EntryAt(2, 4) = "Remove row"
  /\ triggered' = "Remove row"
  /\ Trigger("Remove row")

aDoQuery ==
  /\ EntryAt(3, 1) = "Do query"
  /\ triggered' = "Do query"
  /\ Trigger("Do query")

aCreateTbl ==
  /\ EntryAt(1, 4) = "Create table"
  /\ triggered' = "Create table"
  /\ Trigger("Create table")

aDropTbl ==
  /\ EntryAt(1, 7) = "Drop table"
  /\ triggered' = "Drop table"
  /\ Trigger("Drop table")

aInsertInto ==
  /\ EntryAt(1, 5) = "Insert into"
  /\ triggered' = "Insert into"
  /\ Trigger("Insert into")

aPrintTbl ==
  /\ EntryAt(1, 6) = "Print table"
  /\ triggered' = "Print table"
  /\ Trigger("Print table")

aCreateConn ==
  /\ EntryAt(1, 1) = "Create connection"
  /\ triggered' = "Create connection"
  /\ Trigger("Create connection")

aCloseConn ==
  /\ EntryAt(1, 2) = "Close connection"
  /\ triggered' = "Close connection"
  /\ Trigger("Close connection")

Next ==
  \/ aInitModel
  \/ aSelectTable
  \/ aInsertRow
  \/ aRemoveRow
  \/ aDoQuery
  \/ aCreateTbl
  \/ aDropTbl
  \/ aInsertInto
  \/ aPrintTbl
  \/ aCreateConn
  \/ aCloseConn

Spec == Init /\ [][Next]_vars

\* --------------------------------------------------------- large tables
\* The window after construction where the driver is available and the
\* environment makes no call fail, filling one table by up to
\* MaxBulkInserts runs of onInsertInto.
InitLarge ==
  /\ driverAvailable = TRUE
  /\ registry = {}
  /\ addDatabaseCalls = 0
  /\ connOpen = FALSE
  /\ connDbName = NoName
  /\ m_db = NoConn
  /\ tables = {}
  /\ rows = << >>
  /\ seq = 0
  /\ m_model = nullptr
  /\ viewModel = nullptr
  /\ modelTable = NoName
  /\ editStrategy = OnRowChange
  /\ modelRows = << >>
  /\ headers = << >>
  /\ hiddenColumns = {}
  /\ delegateColumns = {}
  /\ currentRow = InvalidRow
  /\ modelsCreated = 0
  /\ okInserts = 0
  /\ faulted = TRUE
  /\ log = << >>
  /\ sqlTrace = << >>
  /\ NoDelegateWork
  /\ MenusBuilt

onInsertIntoLarge == InsertInto(MaxBulkInserts)

\* Insert into triggered, with the larger bound on the table
aInsertIntoLarge ==
  /\ EntryAt(1, 5) = "Insert into"
  /\ triggered' = "Insert into"
  /\ onInsertIntoLarge

NextLarge ==
  \/ aCreateConn
  \/ aCreateTbl
  \/ aInsertIntoLarge
  \/ aInitModel

SpecLarge == InitLarge /\ [][NextLarge]_vars

\* ------------------------------------------------------------ MyDelegate
\* QVariant: a type and a value
QVariant(t, x) == [type |-> t, v |-> x]
InvalidVariant == QVariant("Invalid", 0)

\* QVariant::toInt(): 0 for what is no number
toInt(q) == IF q.type = "int" THEN q.v ELSE 0

\* the column constants of the two mydelegate.h of the repository
MyDelegate_app == [kPenColorColumn |-> 0, kPenStyleColumn |-> 1]
MyDelegate_lab2 == [kPenColorColumn |-> 1, kPenStyleColumn |-> 2]

\* the item model the delegate tests fill: one row, columns id, pencolor,
\* penstyle; an index is its column, InvalidIndex the default QModelIndex
ColumnCount == 3
InvalidIndex == -1
Indexes == 0..(ColumnCount - 1)
isValid(index) == index \in Indexes
Roles == {"EditRole", "UserRole"}

Item(q) == [role \in Roles |-> IF role = "EditRole" THEN q ELSE InvalidVariant]

fillModel ==
  [column \in Indexes |->
     CASE column = 0 -> Item(QVariant("int", 123))
       [] column = 1 -> Item(QVariant("QColor", "#ff0000"))
       [] column = 2 -> Item(QVariant("int", SolidLine))]

\* model->setData(index, value, role): refused on an invalid index
setData(c, index, value, role) ==
  IF isValid(index) THEN [c EXCEPT ![index][role] = value] ELSE c

\* the entries fillPenStyleCombo adds: text and userData
fillPenStyleCombo ==
  << [text |-> "Qt::NoPen", userData |-> QVariant("int", NoPen)],
     [text |-> "Qt::SolidLine", userData |-> QVariant("int", SolidLine)],
     [text |-> "Qt::DashLine", userData |-> QVariant("int", DashLine)],
     [text |-> "Qt::DotLine", userData |-> QVariant("int", DotLine)],
     [text |-> "Qt::DashDotLine", userData |-> QVariant("int", DashDotLine)],
     [text |-> "Qt::DashDotDotLine",
      userData |-> QVariant("int", DashDotDotLine)] >>

\* combo->findData(styleInt): position from 0, -1 if there is none
findData(styleInt) ==
  IF \E i \in 1..Len(fillPenStyleCombo) :
       fillPenStyleCombo[i].userData = QVariant("int", styleInt)
    THEN (CHOOSE i \in 1..Len(fillPenStyleCombo) :
            fillPenStyleCombo[i].userData = QVariant("int", styleInt)) - 1
    ELSE -1

\* mutant: the entry's text is written instead of its user data
currentData_Text(combo) ==
  QVariant("QString", fillPenStyleCombo[combo.currentIndex + 1].text)

\* combo->currentData()
currentData(combo) == fillPenStyleCombo[combo.currentIndex + 1].userData

\* the widgets createEditor returns: the combo box of the pen-style column,
\* the item editor factory's widget of the base class otherwise (none for an
\* invalid index)
ComboEditor(index) ==
  [kind |-> "QComboBox", column |-> index, currentIndex |-> 0,
   value |-> InvalidVariant]
BaseEditor(index) ==
  [kind |-> "QStyledItemDelegate", column |-> index, currentIndex |-> -1,
   value |-> InvalidVariant]

\* what the user may enter into an editor of the base class, by cell type
Inputs(q) ==
  IF q.type = "int" THEN {QVariant("int", 7)}
  ELSE IF q.type = "QColor" THEN {QVariant("QColor", "#0000ff")}
  ELSE {}

\* QStyledItemDelegate::setModelData: the editor's user property goes to
\* the cell under Qt::EditRole
QStyledItemDelegate_setModelData(e, c, index) ==
  setData(c, index, e.value, "EditRole")

\* MyDelegate::setModelData
MyDelegate_setModelData(e, c, index) ==
  IF ~isValid(index) \/ index # delegate.kPenStyleColumn
    THEN QStyledItemDelegate_setModelData(e, c, index)
    ELSE setData(c, index, currentData(e), "EditRole")

DelegateIdle == UNCHANGED <<windowVars, menuVars, delegate>>

createEditor ==
  \E index \in Indexes \cup {InvalidIndex} :
    /\ editor = NoEditor
    /\ editor' = IF ~isValid(index) THEN NoEditor
                 ELSE IF index # delegate.kPenStyleColumn
                   THEN BaseEditor(index)
                   ELSE ComboEditor(index)
    /\ call' = [method |-> "createEditor", column |-> index]
    /\ UNCHANGED cells
    /\ DelegateIdle

\* the view loads the cell into the editor it created for it
setEditorData ==
  /\ editor # NoEditor
  /\ LET index == editor.column
         styleInt == toInt(cells[index]["EditRole"])
         pos == findData(styleInt)
     IN /\ editor' = IF ~isValid(index) \/ index # delegate.kPenStyleColumn
                       THEN [editor EXCEPT !.value = cells[index]["EditRole"]]
                       ELSE [editor EXCEPT
                               !.currentIndex = IF pos >= 0 THEN pos ELSE 0]
        /\ call' = [method |-> "setEditorData", column |-> index]
  /\ UNCHANGED cells
  /\ DelegateIdle

\* the user picks an entry of the combo box or enters a value
userEdits ==
  /\ editor # NoEditor
  /\ IF editor.kind = "QComboBox"
       THEN \E pos \in 0..(Len(fillPenStyleCombo) - 1) :
              editor' = [editor EXCEPT !.currentIndex = pos]
       ELSE \E q \in Inputs(cells[editor.column]["EditRole"]) :
              editor' = [editor EXCEPT !.value = q]
  /\ call' = [method |-> "", column |-> editor.column]
  /\ UNCHANGED cells
  /\ DelegateIdle

\* the view commits the editor to the cell it was created for; a caller may
\* also pass the default-constructed index
setModelData ==
  \E index \in {editor.column, InvalidIndex} :
    /\ editor # NoEditor
    /\ cells' = MyDelegate_setModelData(editor, cells, index)
    /\ call' = [method |-> "setModelData", column |-> index]
    /\ UNCHANGED editor
    /\ DelegateIdle

\* delete editor
closeEditor ==
  /\ editor # NoEditor
  /\ editor' = NoEditor
  /\ call' = [method |-> "", column |-> editor.column]
  /\ UNCHANGED cells
  /\ DelegateIdle

\* a delegate of either header over the filled item model, beside a window
\* that is only constructed
InitDelegate ==
  /\ driverAvailable = TRUE
  /\ registry = {}
  /\ addDatabaseCalls = 0
  /\ connOpen = FALSE
  /\ connDbName = NoName
  /\ m_db = NoConn
  /\ tables = {}
  /\ rows = << >>
  /\ seq = 0
  /\ m_model = nullptr
  /\ viewModel = nullptr
  /\ modelTable = NoName
  /\ editStrategy = OnRowChange
  /\ modelRows = << >>
  /\ headers = << >>
  /\ hiddenColumns = {}
  /\ delegateColumns = {}
  /\ currentRow = InvalidRow
  /\ modelsCreated = 0
  /\ okInserts = 0
  /\ faulted = FALSE
  /\ log = << >>
  /\ sqlTrace = << >>
  /\ delegate \in {MyDelegate_app, MyDelegate_lab2}
  /\ cells = fillModel
  /\ editor = NoEditor
  /\ call = NoCall
  /\ MenusBuilt

NextDelegate ==
  \/ createEditor
  \/ setEditorData
  \/ userEdits
  \/ setModelData
  \/ closeEditor

SpecDelegate == InitDelegate /\ [][NextDelegate]_vars

\* ----------------------------------------------------------- properties
Last(s) == s[Len(s)]

LogHas(line) == \E i \in 1..Len(log) : log[i] = line

Registered == kConnName_ \in registry

\* C1: while the connection was never created or is closed, onCreateTable,
\* onDropTable, onInsertInto, onPrintTable, onInitTableModel, onInsertRow
\* and onRemoveRow hand no SQL to the driver and leave the registry, the
\* table and its rows, and the view's model and its rows as they were.
C1_ConnectionGuard ==
  [][((~Registered \/ ~connOpen)
       /\ (onCreateTable \/ onDropTable \/ onInsertInto \/ onPrintTable
           \/ onInitTableModel \/ onInsertRow \/ onRemoveRow))
      => (sqlTrace' = << >> /\ UNCHANGED <<connVars, fileVars, modelVars>>)]_vars

\* onInsertInto returned at the guard of a closed connection that has a
\* filled table and a view model to lose
C1_Witness ==
  /\ Registered /\ ~connOpen
  /\ log = <<"onInsertInto: DB is not open. Call BD -> Create connection.">>
  /\ kTable_ \in tables /\ Len(rows) > 0
  /\ viewModel # nullptr /\ Len(modelRows) > 0

\* C2: whenever onCreateConnection has just reported success, the
\* connection is registered under "rectangles_conn", valid, open, and its
\* database name is "rectangle_data.sqlite".
C2_CreateConnectionPost ==
  LogHas("onCreateConnection: OK. db=")
    => /\ registry = {"rectangles_conn"}
       /\ m_db = "rectangles_conn"
       /\ DbIsValid /\ DbIsOpen
       /\ connDbName = "rectangle_data.sqlite"

\* a success on a connection that was closed in between
C2_Witness ==
  /\ log = <<"onCreateConnection: reuse connection",
             "onCreateConnection: OK. db=", "tables:">>
  /\ connOpen /\ connDbName = "rectangle_data.sqlite"
  /\ kTable_ \in tables

\* C3: a call of onCreateConnection on a registered connection reuses it:
\* addDatabase runs at most once in a run, at most one connection is ever
\* registered, and after a repeated successful call the connection is
\* still valid and open.
C3_CreateConnectionIdempotent ==
  /\ addDatabaseCalls <= 1
  /\ Cardinality(registry) <= 1
  /\ Registered <=> addDatabaseCalls = 1
  /\ (log = <<"onCreateConnection: reuse connection",
              "onCreateConnection: OK. db=", "tables:">>
        => DbIsValid /\ DbIsOpen /\ registry = {kConnName_})

\* a repeated successful call on a connection that was still open
C3_Witness ==
  /\ log = <<"onCreateConnection: reuse connection",
             "onCreateConnection: OK. db=", "tables:">>
  /\ addDatabaseCalls = 1
  /\ Len(rows) > 0

\* C4: onCloseConnection on an open connection closes it without
\* unregistering it (registered, valid, not open), and a connection that
\* is registered and valid stays so under every slot.
C4_CloseKeepsRegistered ==
  /\ [](log = <<"onCloseConnection: closed">>
          => Registered /\ DbIsValid /\ ~DbIsOpen)
  /\ [][(Registered /\ DbIsValid) => (Registered /\ DbIsValid)']_vars

C4_Witness ==
  /\ log = <<"onCloseConnection: closed">>
  /\ Registered /\ DbIsValid /\ ~connOpen
  /\ kTable_ \in tables

\* C5: before the first onCreateConnection no connection is registered and
\* the view has no model, also after onCloseConnection ran in that state.
C5_ConstructorNoDbWork ==
  m_db = NoConn
    => /\ registry = {} /\ addDatabaseCalls = 0 /\ ~connOpen
       /\ viewModel = nullptr /\ m_model = nullptr

C5_Witness ==
  /\ m_db = NoConn
  /\ log = <<"onCloseConnection: DB is not valid">>
  /\ registry = {} /\ viewModel = nullptr

\* C6: whenever onCreateTable has just reported success, the table
\* "rectangle" exists and holds no row, also when it existed before with
\* rows and was dropped first.
C6_CreateTablePost ==
  (Len(log) >= 2 /\ log[Len(log) - 1] = "onCreateTable: OK")
    => /\ kTable_ \in tables
       /\ rows = << >>
       /\ DbIsOpen

\* the success of a call that found the table and dropped it first
C6_Witness ==
  /\ log = <<"onCreateTable: table exists, dropping first...",
             "onDropTable: OK", "tables:", "onCreateTable: OK", "tables:">>
  /\ kTable_ \in tables /\ rows = << >>
  /\ sqlTrace = <<SqlDrop, SqlCreate>>
  /\ Len(modelRows) > 0

\* C7: whenever onDropTable has just reported success, the database holds
\* no table "rectangle" (and none of its rows).
C7_DropTablePost ==
  log = <<"onDropTable: OK", "tables:">>
    => /\ kTable_ \notin tables
       /\ kTable_ \notin DbTables
       /\ rows = << >>

\* the success of a drop of a table whose rows the view still shows
C7_Witness ==
  /\ log = <<"onDropTable: OK", "tables:">>
  /\ sqlTrace = <<SqlDrop>>
  /\ kTable_ \notin tables
  /\ Len(modelRows) > 0

\* C8: with the connection open and the table absent, onDropTable,
\* onInsertInto, onPrintTable and onInitTableModel hand no SQL to the
\* driver and change nothing: no table is created, no row inserted, the
\* view's model is neither created nor changed.
C8_MissingTableGuard ==
  [][(Registered /\ DbIsValid /\ DbIsOpen /\ kTable_ \notin tables
       /\ (onDropTable \/ onInsertInto \/ onPrintTable \/ onInitTableModel))
      => (sqlTrace' = << >> /\ UNCHANGED <<connVars, fileVars, modelVars>>)]_vars

\* onInitTableModel returned at the guard of a table that was dropped
C8_Witness ==
  /\ DbIsOpen /\ kTable_ \notin tables
  /\ log = <<"onInitTableModel: table does not exist. Call BD -> Create table first.">>
  /\ sqlTrace = << >>

\* C9: a successful onInsertInto appends exactly 10 rows to those the
\* table held, and n successful calls since onCreateTable, with no other
\* change of the rows, leave 10*n rows.
C9_TenRowsPerInsert ==
  /\ [][(onInsertInto /\ Last(log') = "onInsertInto: DONE")
         => /\ Len(rows') = Len(rows) + 10
            /\ SubSeq(rows', 1, Len(rows)) = rows]_vars
  /\ []((kTable_ \in tables /\ okInserts >= 0)
          => Len(rows) = 10 * okInserts)

\* the second successful call in a row
C9_Witness ==
  /\ Last(<<"">> \o log) = "onInsertInto: DONE"
  /\ okInserts = 2
  /\ Len(rows) = 20

\* the fields of a stored row other than its id
NoId(r) == <<r.pencolor, r.penstyle, r.penwidth, r.left, r.top, r.width,
             r.height>>

\* C10: the rows a successful onInsertInto stores by named bindValue
\* (2..4), by addBindValue (5..7) and by positional bindValue (8..10) are
\* the same three rectangles in the same order, column by column apart
\* from id, with pencolor stored as the string "#rrggbb".
C10_BindingsEquivalent ==
  (Last(<<"">> \o log) = "onInsertInto: DONE")
    => LET base == Len(rows) - 10
           row(i) == rows[base + i]
       IN /\ base >= 0
          /\ \A j \in 0..2 :
               /\ NoId(row(2 + j)) = NoId(row(5 + j))
               /\ NoId(row(2 + j)) = NoId(row(8 + j))
               /\ row(2 + j).id # row(5 + j).id
               /\ row(5 + j).id # row(8 + j).id
          /\ <<row(2).pencolor, row(3).pencolor, row(4).pencolor>>
               = <<"#00ff00", "#0000ff", "#aaaaaa">>
          /\ NoId(row(2)) = <<"#00ff00", 1, 2, 0, 0, 200, 100>>
          /\ NoId(row(3)) = <<"#0000ff", 2, 1, 10, 20, 60, 60>>
          /\ NoId(row(4)) = <<"#aaaaaa", 3, 4, 50, 70, 30, 90>>

C10_Witness ==
  /\ Last(<<"">> \o log) = "onInsertInto: DONE"
  /\ Len(rows) = 10
  /\ rows[8].pencolor = "#00ff00" /\ rows[10].penstyle = DotLine

\* C11: whenever onInitTableModel has just reported success, the view is
\* bound to the window's table model on table "rectangle", the model has as
\* many rows as the database table, the headers of columns 0..7 are ID,
\* Color, Style, PenWidth, Left, Top, Width, Height, column 0 is hidden and
\* columns 1 and 2 have a delegate.
C11_InitTableModelPost ==
  log = <<"onInitTableModel: loaded rows=">>
    => /\ viewModel # nullptr /\ viewModel = m_model
       /\ modelTable = "rectangle"
       /\ Len(modelRows) = Len(rows)
       /\ headers = <<"ID", "Color", "Style", "PenWidth", "Left", "Top",
                      "Width", "Height">>
       /\ 0 \in hiddenColumns
       /\ {1, 2} \subseteq delegateColumns

\* the guards of onInitTableModel pass: connection valid and open, table there
InitGuardsPass == Registered /\ DbIsValid /\ DbIsOpen /\ kTable_ \in tables

\* C12 (amended): the table model is constructed at most once per window:
\* the first onInitTableModel that passes its guards constructs it and
\* binds it to the view, whether or not its select() then succeeds, every
\* later onInitTableModel reuses it, and once the view has a model no slot
\* replaces or removes it.
C12_ModelCreatedOnce ==
  /\ [](/\ modelsCreated <= 1
        /\ viewModel = m_model
        /\ (m_model # nullptr <=> modelsCreated = 1))
  /\ [][viewModel # nullptr => viewModel' = viewModel]_vars
  /\ [][(onInitTableModel /\ InitGuardsPass)
         => /\ viewModel' # nullptr /\ viewModel' = m_model'
            /\ (m_model = nullptr => modelsCreated' = modelsCreated + 1)
            /\ (m_model # nullptr => /\ m_model' = m_model
                                     /\ modelsCreated' = modelsCreated)]_vars
  /\ [][modelsCreated' # modelsCreated
         => (onInitTableModel /\ InitGuardsPass)]_vars

\* the model was constructed and bound by a call whose select() failed,
\* before any call succeeded
C12_Witness ==
  /\ log = <<"onInitTableModel: select() failed:">>
  /\ viewModel # nullptr /\ viewModel = m_model /\ modelsCreated = 1
  /\ hiddenColumns = {}

\* C12 (as claimed): the table model is constructed at most once per
\* window, it is a successful onInitTableModel that constructs it and binds
\* it to the view, later calls reuse it, and once the view has a model no
\* slot replaces or removes it.
C12_CreatedBySuccessfulInit ==
  /\ [](modelsCreated <= 1 /\ viewModel = m_model)
  /\ [][viewModel # nullptr => viewModel' = viewModel]_vars
  /\ [][(m_model = nullptr /\ m_model' # nullptr)
         => (onInitTableModel
             /\ log' = <<"onInitTableModel: loaded rows=">>)]_vars

\* the integer value of the Qt::PenStyle an entry of the combo box names
PenStyleValue(text) ==
  CASE text = "Qt::NoPen" -> 0
    [] text = "Qt::SolidLine" -> 1
    [] text = "Qt::DashLine" -> 2
    [] text = "Qt::DotLine" -> 3
    [] text = "Qt::DashDotLine" -> 4
    [] text = "Qt::DashDotDotLine" -> 5

EntryTexts == <<"Qt::NoPen", "Qt::SolidLine", "Qt::DashLine", "Qt::DotLine",
                "Qt::DashDotLine", "Qt::DashDotDotLine">>

\* C13: setModelData on the pen-style column stores the integer
\* Qt::PenStyle value of the combo's current entry in that cell under
\* Qt::EditRole and leaves every other cell and role as it was; on another
\* column it does what the base delegate does (the editor's value goes to
\* the cell under Qt::EditRole), and on an invalid index nothing changes.
C13_SetModelData ==
  [][(setModelData /\ call'.method = "setModelData")
      => LET index == call'.column
             style == delegate.kPenStyleColumn
         IN /\ editor' = editor
            /\ \A c \in 0..2 : c # index => cells'[c] = cells[c]
            /\ index \in 0..2 => cells'[index]["UserRole"]
                                    = cells[index]["UserRole"]
            /\ (index \in 0..2 /\ index = style)
                 => cells'[index]["EditRole"]
                      = [type |-> "int",
                         v |-> PenStyleValue(
                                 EntryTexts[editor.currentIndex + 1])]
            /\ (index \in 0..2 /\ index # style)
                 => cells'[index]["EditRole"] = editor.value
            /\ index \notin 0..2 => cells' = cells]_vars

\* Qt::DotLine picked in the combo box has been stored in the pen-style cell
C13_Witness ==
  /\ call = [method |-> "setModelData", column |-> delegate.kPenStyleColumn]
  /\ editor.kind = "QComboBox" /\ editor.currentIndex = 3
  /\ cells[delegate.kPenStyleColumn]["EditRole"] = [type |-> "int", v |-> 3]

\* the titles of the menus of the menu bar, in order
MenuTitles == [m \in 1..Len(menuBar) |-> menuBar[m].title]

\* the texts of the actions of the menu with the given title, in order
MenuActions(title) ==
  LET m == CHOOSE i \in 1..Len(menuBar) : menuBar[i].title = title
  IN  SelectSeq(menuBar[m].entries, LAMBDA e : e # Separator)

C15_InsertRowPending ==
  [][(onInsertRow /\ log' = <<"onInsertRow: inserted row=">>)
       => /\ editStrategy = OnRowChange
          /\ Len(modelRows') = Len(modelRows) + 1
          /\ Last(modelRows').op = "Insert"
          /\ ~Last(modelRows').submitted
          /\ Len(rows') = Len(rows)
          /\ rows' = rows]_vars

\* C15 witness: onInsertRow has added a row to a model that showed all ten
\* rows of the table
C15_Witness ==
  /\ triggered = "Insert row"
  /\ log = <<"onInsertRow: inserted row=">>
  /\ editStrategy = OnRowChange
  /\ Len(rows) = RowsPerInsert
  /\ Len(modelRows) = RowsPerInsert + 1
  /\ currentRow = RowsPerInsert

\* the qDebug lines of a failed INSERT
FailLines ==
  {"onInsertInto: simple INSERT failed:",
   "onInsertInto: named bindValue failed:",
   "onInsertInto: addBindValue failed:",
   "onInsertInto: positional bindValue failed:"}

\* the values of the ten rows of onInsertInto in statement order
TenInOrder ==
  LET first == <<"#ff0000", 1, 3, 10, 20, 60, 60>>
      three == << <<"#00ff00", SolidLine, 2, 0, 0, 200, 100>>,
                  <<"#0000ff", DashLine, 1, 10, 20, 60, 60>>,
                  <<"#aaaaaa", DotLine, 4, 50, 70, 30, 90>> >>
  IN <<first>> \o three \o three \o three

\* C16: onInsertInto is not atomic: it stops at the first INSERT that
\* fails and executes no later statement, and the rows stored before the
\* failure stay in the table; after a failed onInsertInto the rows added
\* are the first k of the ten in statement order, for some k with
\* 0 <= k < 10, and statement k+1 is the last one executed.
C16_InsertNotAtomic ==
  [][(onInsertInto /\ Last(log') \in FailLines)
       => \E k \in 0..(RowsPerInsert - 1) :
            /\ Len(rows') = Len(rows) + k
            /\ SubSeq(rows', 1, Len(rows)) = rows
            /\ \A i \in 1..k : NoId(rows'[Len(rows) + i]) = TenInOrder[i]
            /\ Len(sqlTrace') = k + 1
            /\ ~\E i \in 1..Len(log') : log'[i] = "onInsertInto: DONE"]_vars

\* C16 witness: the second onInsertInto failed at its fifth statement and
\* its first four rows stay after the ten of the first call
C16_Witness ==
  /\ triggered = "Insert into"
  /\ Last(<<"">> \o log) = "onInsertInto: addBindValue failed:"
  /\ Len(rows) = RowsPerInsert + 4
  /\ Len(sqlTrace) = 5

====
